---- MODULE Spec2Model ----
(***************************************************************************)
(* Store-placement prediction service.                                     *)
(*                                                                         *)
(* Two deployments of the same FastAPI application are modelled,           *)
(*   "server"     : src/server/predict_location_api.py                     *)
(*   "python_api" : src/python-api/predict_location_api.py                 *)
(* together with the geometry normalisation of the training script         *)
(*   src/server/ml/train_model.py.                                         *)
(*                                                                         *)
(* Units.  Coordinates are integers in millidegrees (10.0 deg = 10000).    *)
(* Distances are compared as squared decimetres.  Probabilities and        *)
(* confidences are integers in hundredths (0.75 = 75).  Python's None is   *)
(* the empty tuple, any other optional value v is the 1-tuple <<v>>.       *)
(***************************************************************************)
EXTENDS Integers, Sequences, FiniteSets, TLC

\* ------------------------------------------------------------------ bounds
\* longest request batch
MaxBatch == 2
\* most features of the reference collection read at service startup
MaxRefFeatures == 2
\* most features of a collection handed to geometry normalisation alone
MaxFeatures == 3
\* the pseudo-random generator's states are 0..MaxSeed
MaxSeed == 1

\* ----------------------------------------------------------------- options
None == <<>>
Some(v) == <<v>>
IsNone(o) == o = <<>>
Get(o) == o[1]

Range(s) == {s[i] : i \in 1..Len(s)}

\* all sequences over S of length at most n
SeqsUpTo(S, n) == UNION {[1..k -> S] : k \in 0..n}

\* ------------------------------------------------------------ input domains
Apps == {"server", "python_api"}

\* lexicographic order of the category strings (the order pandas sorts in)
FclassOrder ==
    <<"commercial", "industrial", "open_land", "residential", "settlement",
      "shop", "supermarket">>

SortedFclass(S) == SelectSeq(FclassOrder, LAMBDA c : c \in S)

\* the reference place of the end-to-end scenario and query points around it
Testville == [latitude |-> 10000, longitude |-> 20000]
PNear == [latitude |-> 10000, longitude |-> 20005]
PFar == [latitude |-> 10000, longitude |-> 20020]
PBadLat == [latitude |-> 91000, longitude |-> 20000]

Location(p, fclass) ==
    [latitude |-> p.latitude, longitude |-> p.longitude, fclass |-> fclass]

Locations ==
    { Location(Testville, "shop"), Location(PNear, "open_land"),
      Location(PFar, "commercial"), Location(PBadLat, "shop") }

Batches == SeqsUpTo(Locations, MaxBatch)

\* GeoJSON features.  gtype "" is a geometry without a 'type' key; a Point
\* carries [lon, lat] (or a wrongly nested / short coordinate list); a Polygon
\* carries its vertices, written here as the flat list lon, lat, lon, lat;
\* "Hexagon" is a type string GeoJSON does not know.
PointFeature(p, fclass, name) ==
    [gtype |-> "Point", coordinates |-> <<p.longitude, p.latitude>>,
     fclass |-> fclass, name |-> name]

\* the features a reference file read at startup is made of
StartupFeatures ==
    { PointFeature(Testville, "settlement", "Testville"),
      PointFeature(PFar, "settlement", "Farville"),
      PointFeature(PNear, "shop", "Big Bazaar"),
      [gtype |-> "", coordinates |-> <<>>, fclass |-> "shop", name |-> "x"] }

\* the features of a collection handed to geometry normalisation alone
FeatureUniverse ==
    StartupFeatures
      \cup { [gtype |-> "Point", coordinates |-> <<20005>>,
              fclass |-> "settlement", name |-> "y"],
             [gtype |-> "Polygon",
              coordinates |-> <<20000, 10000, 20020, 10000>>,
              fclass |-> "open_land", name |-> "z"],
             [gtype |-> "Hexagon", coordinates |-> <<20005, 10000>>,
              fclass |-> "shop", name |-> "w"] }

\* ------------------------------------------------- geometry normalisation
\* One iteration of the loop body: the record appended for a feature, whether
\* the feature is skipped, or whether the body raises (KeyError on geom['type'],
\* ValueError on unpacking coordinates that are not a pair).
\* the loop body raising on a geometry type it does not handle
\* (an else branch with raise ValueError) as well
FeatureRaisesOnUnknownType(f) ==
    \/ f.gtype = ""
    \/ f.gtype = "Point" /\ Len(f.coordinates) # 2
    \/ f.gtype \notin {"", "Point", "LineString", "Polygon", "MultiPoint",
                       "MultiLineString", "MultiPolygon"}

FeatureRaises(f) ==
    \/ f.gtype = ""
    \/ f.gtype = "Point" /\ Len(f.coordinates) # 2

FeatureRecord(f) ==
    [latitude |-> f.coordinates[2], longitude |-> f.coordinates[1],
     fclass |-> f.fclass, name |-> f.name]

\* The loop over geojson_data['features'] up to the first raising feature:
\* the rows appended to data, and whether the loop was left by an exception.
RECURSIVE LoopFeatures(_, _)
LoopFeatures(features, data) ==
    IF features = <<>> THEN [data |-> data, raised |-> FALSE]
    ELSE LET f == Head(features) IN
         IF FeatureRaises(f) THEN [data |-> data, raised |-> TRUE]
         ELSE IF f.gtype = "Point"
              THEN LoopFeatures(Tail(features), Append(data, FeatureRecord(f)))
              ELSE LoopFeatures(Tail(features), data)

\* process_geojson of the two services: the try/except encloses the open()
\* and the whole loop, so an exception ends the loop and the rows collected
\* so far are returned.
process_geojson(file) ==
    IF ~file.readable THEN <<>>
    ELSE LoopFeatures(file.features, <<>>).data

\* process_geojson_data of the training script: no try/except, an exception
\* of the loop body propagates to the caller.
process_geojson_data(features) ==
    LET r == LoopFeatures(features, <<>>) IN
    IF r.raised THEN [raised |-> TRUE, data |-> <<>>]
    ELSE [raised |-> FALSE, data |-> r.data]

\* settlements = df_all[df_all['fclass'] == 'settlement'], zipped to (lat, lon)
SettlementCoords(df) ==
    LET s == SelectSeq(df, LAMBDA r : r.fclass = "settlement") IN
    [i \in 1..Len(s) |-> [latitude |-> s[i].latitude, longitude |-> s[i].longitude]]

\* -------------------------------------------------------- training schema
\* The three feature columns that are not one-hot encoded, in frame order.
BaseColumns == <<"latitude", "longitude", "near_settlement">>

DummyName(c) == "fclass_" \o c

\* X = pd.get_dummies(training_data[features], columns=['fclass'],
\* drop_first=True); X.columns.tolist(): the plain columns, then one dummy per
\* category seen in training in sorted order, the first one dropped.
TrainColumns(cats) ==
    LET sorted == SortedFclass(cats) IN
    BaseColumns \o [i \in 1..(Len(sorted) - 1) |-> DummyName(sorted[i + 1])]

\* feature_columns.joblib as written by a training run
Schemas ==
    { TrainColumns({"open_land", "shop"}),
      TrainColumns({"open_land", "shop", "supermarket"}) }

\* store_placement_model.joblib: a fitted classifier.  It is an external
\* collaborator; the rules stand for fitted forests that answer 0 everywhere,
\* 1 everywhere, or follow the near_settlement column.  n_features_in is the
\* width of the matrix it was fitted on.
Classifiers ==
    { [rule |-> r, n_features_in |-> 4] :
        r \in {"all_unsuitable", "all_suitable", "near_rule"} }
      \cup { [rule |-> "near_rule", n_features_in |-> 5] }

\* ------------------------------------------------------------ near_settlement
ValidLatitude(p) == p.latitude >= -90000 /\ p.latitude <= 90000

\* geopy.distance.geodesic(a, b), squared, in decimetres.  Around latitude
\* 10 deg one millidegree is 110.6 m of latitude and 109.6 m of longitude.
\* Points more than 30 millidegrees apart on an axis are more than 3 km apart;
\* their distance is not computed further.
Abs(n) == IF n < 0 THEN -n ELSE n

GeodesicSq(a, b) ==
    LET dy == 1106 * (a.latitude - b.latitude)
        dx == 1096 * (a.longitude - b.longitude)
    IN IF Abs(a.latitude - b.latitude) > 30 \/ Abs(a.longitude - b.longitude) > 30
       THEN 30000 * 30000
       ELSE dx * dx + dy * dy

\* 0 < geodesic(point_coords, s_coords).km <= 2.0
InRing(point, s) ==
    /\ 0 < GeodesicSq(point, s)
    /\ GeodesicSq(point, s) <= 20000 * 20000

\* any(0 < geodesic(...).km <= 2.0 for s_coords in settlement_coords): the
\* generator is consumed in order and stops at the first True; geodesic raises
\* ValueError for a latitude outside [-90, 90].
RECURSIVE AnyInRing(_, _)
AnyInRing(point, coords) ==
    IF coords = <<>> THEN [raised |-> FALSE, value |-> FALSE]
    ELSE IF ~ValidLatitude(point) \/ ~ValidLatitude(Head(coords))
         THEN [raised |-> TRUE, value |-> FALSE]
         ELSE IF InRing(point, Head(coords))
              THEN [raised |-> FALSE, value |-> TRUE]
              ELSE AnyInRing(point, Tail(coords))

\* is_near computed from the nearest distance, min(...) <= 2.0, without the
\* guard: min() of an empty sequence raises ValueError
IsNearByMin(point, coords) ==
    IF coords # <<>> THEN AnyInRing(point, coords)
    ELSE [raised |-> TRUE, value |-> FALSE]

\* the comparison written without the lower bound:
\* any(geodesic(point_coords, s_coords).km <= 2.0 for s_coords in ...)
RECURSIVE AnyWithinTwoKm(_, _)
AnyWithinTwoKm(point, coords) ==
    IF coords = <<>> THEN [raised |-> FALSE, value |-> FALSE]
    ELSE IF ~ValidLatitude(point) \/ ~ValidLatitude(Head(coords))
         THEN [raised |-> TRUE, value |-> FALSE]
         ELSE IF GeodesicSq(point, Head(coords)) <= 20000 * 20000
              THEN [raised |-> FALSE, value |-> TRUE]
              ELSE AnyWithinTwoKm(point, Tail(coords))

IsNearInclusive(point, coords) ==
    IF coords # <<>> THEN AnyWithinTwoKm(point, coords)
    ELSE [raised |-> FALSE, value |-> FALSE]

\* is_near = any(...) if settlement_coords else False
IsNear(point, coords) ==
    IF coords # <<>> THEN AnyInRing(point, coords)
    ELSE [raised |-> FALSE, value |-> FALSE]

\* the loop over new_df.iterrows(): the flags collected, or the exception of
\* the first row whose distance computation raises
RECURSIVE NearSettlementLoop(_, _, _)
NearSettlementLoop(rows, coords, acc) ==
    IF rows = <<>> THEN [raised |-> FALSE, value |-> acc]
    ELSE LET r == IsNear(Head(rows), coords) IN
         IF r.raised THEN [raised |-> TRUE, value |-> acc]
         ELSE NearSettlementLoop(Tail(rows), coords, Append(acc, r.value))

\* calculate_near_settlement of the training script.  A frame built from no
\* rows has no 'fclass' column, and df['fclass'] raises KeyError.
calculate_near_settlement(df) ==
    LET coords == SettlementCoords(df) IN
    IF df = <<>> THEN [raised |-> TRUE, value |-> <<>>]
    ELSE IF coords = <<>> THEN [raised |-> FALSE, value |-> [i \in 1..Len(df) |-> FALSE]]
    ELSE LET flags == [i \in 1..Len(df) |-> AnyInRing(df[i], coords)] IN
         IF \E i \in 1..Len(df) : flags[i].raised
         THEN [raised |-> TRUE, value |-> <<>>]
         ELSE [raised |-> FALSE, value |-> [i \in 1..Len(df) |-> flags[i].value]]

\* ------------------------------------------------ one-hot encoding, alignment
BoolInt(b) == IF b THEN 1 ELSE 0

\* pd.get_dummies(new_df[[latitude, longitude, fclass, near_settlement]],
\* columns=['fclass']): the plain columns, then one indicator column per
\* fclass value of this batch, in sorted order.
get_dummies(locations, near) ==
    LET present == {locations[i].fclass : i \in 1..Len(locations)}
        sorted == SortedFclass(present)
        cols == BaseColumns \o [i \in 1..Len(sorted) |-> DummyName(sorted[i])]
    IN [columns |-> cols,
        rows |-> [i \in 1..Len(locations) |->
                    [c \in Range(cols) |->
                       CASE c = "latitude" -> locations[i].latitude
                         [] c = "longitude" -> locations[i].longitude
                         [] c = "near_settlement" -> BoolInt(near[i])
                         [] OTHER -> BoolInt(c = DummyName(locations[i].fclass))]]]

\* reindex left out: the encoded batch goes to the classifier as it is
reindexSkipped(X, feature_columns) == X

\* reindex without fill_value: an absent column is NaN (-1 here), not 0
reindexNoFill(X, feature_columns) ==
    [columns |-> feature_columns,
     rows |-> [i \in 1..Len(X.rows) |->
                 [c \in Range(feature_columns) |->
                    IF c \in Range(X.columns) THEN X.rows[i][c] ELSE -1]]]

\* X_new.reindex(columns=feature_columns, fill_value=0)
reindex(X, feature_columns) ==
    [columns |-> feature_columns,
     rows |-> [i \in 1..Len(X.rows) |->
                 [c \in Range(feature_columns) |->
                    IF c \in Range(X.columns) THEN X.rows[i][c] ELSE 0]]]

\* ------------------------------------------------------------------ scoring
\* model.predict / model.predict_proba raise ValueError when the matrix is not
\* as wide as the matrix the forest was fitted on.
ScoringRaises(clf, X) == Len(X.columns) # clf.n_features_in

PredictRow(clf, row) ==
    CASE clf.rule = "all_unsuitable" -> 0
      [] clf.rule = "all_suitable" -> 1
      [] OTHER -> row["near_settlement"]

\* class-1 probability in hundredths
ProbaRow(clf, row) ==
    CASE clf.rule = "all_unsuitable" -> 20
      [] clf.rule = "all_suitable" -> 90
      [] OTHER -> IF row["near_settlement"] = 1 THEN 80 ELSE 30

\* ------------------------------------------------------------ random module
Seeds == 0..MaxSeed

\* The k-th value random.uniform(0, 1) yields from generator state seed, in
\* eighths (0..8): the generator is deterministic given its state.
Random(seed, k) == ((seed + 1) * (k + 2) + k) % 9

\* ---------------------------------------------------------------- responses
\* What a handler hands back to the framework, with the locals of
\* predict_locations_logic it went through (None where it did not get there):
\*   status  HTTP status, kind "results" | "http_error" | "diagnosis" | "debug" | "status"
\*   detail  the HTTPException detail or error text
\*   body    the result records, source "classifier" | "mock" | "none"
\*   info    what a status or diagnosis endpoint reports (None otherwise)
Outcome(status, kind, detail, body, source, near, X) ==
    [status |-> status, kind |-> kind, detail |-> detail, body |-> body,
     source |-> source, near_settlement |-> near, X_new |-> X, info |-> None]

HTTPException(status, detail) ==
    Outcome(status, "http_error", detail, <<>>, "none", None, None)

\* ------------------------------------------------- predict_locations_logic
\* the placeholder branch of the python-api copy
MockResults(locations, seed) ==
    [i \in 1..Len(locations) |->
       [latitude |-> locations[i].latitude,
        longitude |-> locations[i].longitude,
        suitable |-> ((locations[i].latitude % 1000)
                      + (locations[i].longitude % 1000)) % 30 > 10,
        confidence |-> Some(60 + (30 * Random(seed, i)) \div 8)]]

\* the branch taken when model is None or feature_columns is None
ModelNotLoaded(a, locations, seed) ==
    IF a = "server"
    THEN HTTPException(500, "Model not loaded properly")
    ELSE Outcome(200, "results", "", MockResults(locations, seed), "mock",
                 None, None)

\* the format-response loop building the list back to front
\* (results.insert(0, ...)): coordinates of row n+1-i at position i
FormatResultsReversed(clf, locations, X) ==
    [i \in 1..Len(X.rows) |->
       [latitude |-> locations[Len(X.rows) + 1 - i].latitude,
        longitude |-> locations[Len(X.rows) + 1 - i].longitude,
        suitable |-> PredictRow(clf, X.rows[Len(X.rows) + 1 - i]) # 0,
        confidence |-> Some(ProbaRow(clf, X.rows[Len(X.rows) + 1 - i]))]]

\* the format-response loop over zip(predictions, probabilities)
FormatResults(clf, locations, X) ==
    [i \in 1..Len(X.rows) |->
       [latitude |-> locations[i].latitude,
        longitude |-> locations[i].longitude,
        suitable |-> PredictRow(clf, X.rows[i]) # 0,
        confidence |-> Some(ProbaRow(clf, X.rows[i]))]]

\* an exception leaving a try block, with the locals bound before it
Raised(message, near, X) ==
    Outcome(500, "exception", message, <<>>, "none", near, X)

\* the body of the try block of predict_locations_logic
TryBody(clf, cols, coords, locations) ==
    LET near == NearSettlementLoop(locations, coords, <<>>) IN
    IF near.raised
    THEN Raised("Latitude must be in the [-90; 90] range.", None, None)
    ELSE IF locations = <<>>
    THEN Raised("None of [latitude, longitude, fclass] are in the [columns]",
                Some(near.value), None)
    ELSE LET X == reindex(get_dummies(locations, near.value), cols) IN
         IF ScoringRaises(clf, X)
         THEN Raised("X has a different number of features than the classifier expects",
                     Some(near.value), Some(X))
         ELSE Outcome(200, "results", "", FormatResults(clf, locations, X),
                      "classifier", Some(near.value), Some(X))

\* an except clause that swallows the exception and returns an empty list
TryPredictSwallowing(clf, cols, coords, locations) ==
    LET r == TryBody(clf, cols, coords, locations) IN
    IF r.kind = "exception"
    THEN [r EXCEPT !.kind = "results", !.status = 200, !.detail = ""]
    ELSE r

\* an except clause that answers with the placeholder records instead of
\* raising (return mock_results)
TryPredictMockFallback(clf, cols, coords, locations) ==
    LET r == TryBody(clf, cols, coords, locations) IN
    IF r.kind = "exception"
    THEN Outcome(200, "results", "", MockResults(locations, 0), "mock",
                 r.near_settlement, r.X_new)
    ELSE r

\* except Exception as e:
\*     raise HTTPException(status_code=500, detail=f"Prediction error: {str(e)}")
TryPredict(clf, cols, coords, locations) ==
    LET r == TryBody(clf, cols, coords, locations) IN
    IF r.kind = "exception"
    THEN [r EXCEPT !.kind = "http_error",
                   !.detail = "Prediction error: " \o r.detail]
    ELSE r

predict_locations_logic(a, m, cols, coords, locations, seed) ==
    IF IsNone(m) \/ IsNone(cols)
    THEN ModelNotLoaded(a, locations, seed)
    ELSE TryPredict(Get(m), Get(cols), coords, locations)

\* ------------------------------------------------ generate_points_in_circle
\* default of the num_points parameter
NumPoints == 20

\* division rounding toward zero
Trunc(n, d) == IF n >= 0 THEN n \div d ELSE -((-n) \div d)

\* cos and sin of 2 * pi * q / 8 in thousandths, for q in 0..8
CosQ(q) == <<1000, 707, 0, -707, -1000, -707, 0, 707, 1000>>[q + 1]
SinQ(q) == <<0, 707, 1000, 707, 0, -707, -1000, -707, 0>>[q + 1]

\* math.sqrt(q / 8) in thousandths, for q in 0..8
SqrtQ(q) == <<0, 353, 500, 612, 707, 790, 866, 935, 1000>>[q + 1]

\* 111.32 * cos(radians(center_lat)) in hundredths of a km per degree, for
\* the centre latitudes used here: 0, 10 and 60 degrees
LngKmPerDegree(center_lat) ==
    CASE center_lat = 0 -> 11132
      [] center_lat = 60000 -> 5566
      [] OTHER -> 10963

\* the offsets added in kilometres, the division by the km per degree left out
CirclePointKmAsDegrees(center_lat, center_lng, radius, seed, i) ==
    LET angle == Random(seed, 2 * i)
        r == (radius * SqrtQ(Random(seed, 2 * i + 1))) \div 1000
    IN [latitude |-> center_lat + Trunc(r * CosQ(angle), 1000),
        longitude |-> center_lng + Trunc(r * SinQ(angle), 1000)]

\* The i-th point (i from 0): angle = uniform(0, 2 pi), then
\* r = radius_km * sqrt(uniform(0, 1)); radius is in metres here.
CirclePoint(center_lat, center_lng, radius, seed, i) ==
    LET angle == Random(seed, 2 * i)
        r == (radius * SqrtQ(Random(seed, 2 * i + 1))) \div 1000
    IN [latitude |-> center_lat + Trunc(r * CosQ(angle), 11054 * 10),
        longitude |-> center_lng
                        + Trunc(r * SinQ(angle),
                                LngKmPerDegree(center_lat) * 10)]

generate_points_in_circle(center_lat, center_lng, radius, num_points, seed) ==
    [k \in 1..num_points |->
       CirclePoint(center_lat, center_lng, radius, seed, k - 1)]

\* the Location objects built with a fixed category instead of request.fclass
CircleLocationsUntagged(req, num_points, seed) ==
    LET points == generate_points_in_circle(req.latitude, req.longitude,
                                            req.radius, num_points, seed)
    IN [k \in 1..Len(points) |-> Location(points[k], "open_land")]

\* locations = [Location(latitude=p[..], longitude=p[..], fclass=request.fclass)]
CircleLocations(req, num_points, seed) ==
    LET points == generate_points_in_circle(req.latitude, req.longitude,
                                            req.radius, num_points, seed)
    IN [k \in 1..Len(points) |-> Location(points[k], req.fclass)]

CircleRequests ==
    { [latitude |-> c.latitude, longitude |-> c.longitude, radius |-> r,
       fclass |-> f] :
        c \in {Testville, PFar}, r \in {0, 2000}, f \in {"open_land", "shop"} }

\* --------------------------------------------------------- circle handlers
\* POST /predict-circle
PredictCircleOutcome(a, m, cols, coords, req, seed) ==
    IF IsNone(m) \/ IsNone(cols)
    THEN HTTPException(500, "Model not loaded properly - check if model files exist")
    ELSE predict_locations_logic(a, m, cols, coords,
                                 CircleLocations(req, NumPoints, seed), seed)

\* the forcing loops of /force-mixed-results: range(0, n, 3) set suitable,
\* range(1, n, 3) set unsuitable (python-api only)
ForceSuitable(results) ==
    [i \in 1..Len(results) |->
       IF (i - 1) % 3 = 0
       THEN [results[i] EXCEPT !.suitable = TRUE, !.confidence = Some(75)]
       ELSE results[i]]

ForceUnsuitable(results) ==
    [i \in 1..Len(results) |->
       IF (i - 1) % 3 = 1
       THEN [results[i] EXCEPT !.suitable = FALSE, !.confidence = Some(65)]
       ELSE results[i]]

\* the handler with the all_unsuitable branch only, whatever the deployment
ForcedResultsOnlyUnsuitable(a, results) ==
    IF \A i \in 1..Len(results) : ~results[i].suitable
    THEN ForceSuitable(results)
    ELSE results

ForcedResults(a, results) ==
    IF \A i \in 1..Len(results) : ~results[i].suitable
    THEN ForceSuitable(results)
    ELSE IF a = "python_api" /\ \A i \in 1..Len(results) : results[i].suitable
         THEN ForceUnsuitable(results)
         ELSE results

\* POST /force-mixed-results: an HTTPException of the inner call is caught by
\* the handler's own except clause and wrapped once more
ForceMixedOutcome(a, m, cols, coords, req, seed) ==
    IF IsNone(m) \/ IsNone(cols)
    THEN HTTPException(500, "Model not loaded properly")
    ELSE LET r == predict_locations_logic(a, m, cols, coords,
                      CircleLocations(req, NumPoints, seed), seed)
         IN IF r.kind = "http_error"
            THEN [r EXCEPT !.detail = "Prediction error: " \o r.detail]
            ELSE [r EXCEPT !.body = ForcedResults(a, r.body)]

\* POST /predict-circle-varied (python-api): 15 points, the fclass cycling
\* through fclass_options, each point predicted on its own; the first
\* HTTPException ends the request.
FclassOptions == <<"open_land", "settlement", "commercial", "residential", "industrial">>

VariedOutcome(a, m, cols, coords, req, seed) ==
    IF IsNone(m) \/ IsNone(cols)
    THEN HTTPException(500, "Model not loaded properly")
    ELSE LET points == generate_points_in_circle(req.latitude, req.longitude,
                                                 req.radius, 15, seed)
             fclass(k) == FclassOptions[((k - 1) % Len(FclassOptions)) + 1]
             one(k) == predict_locations_logic(a, m, cols, coords,
                           <<Location(points[k], fclass(k))>>, seed)
             failed == {k \in 1..Len(points) : one(k).kind = "http_error"}
         IN IF failed # {}
            THEN one(CHOOSE k \in failed : \A j \in failed : k <= j)
            ELSE Outcome(200, "results", "",
                         [k \in 1..Len(points) |->
                            [latitude |-> one(k).body[1].latitude,
                             longitude |-> one(k).body[1].longitude,
                             suitable |-> one(k).body[1].suitable,
                             confidence |-> one(k).body[1].confidence,
                             fclass_used |-> fclass(k)]],
                         "classifier", None, None)

\* ------------------------------------------------- diagnosis and debugging
\* POST /diagnose-model.  The python-api copy also scores the request's centre
\* inside a try block and reports an exception as diagnosis["prediction_error"].
DiagnoseOutcome(a, fs, m, cols, coords, req) ==
    LET diagnosis ==
            [files_exist |-> [model_file |-> ~IsNone(fs.model_file),
                              features_file |-> ~IsNone(fs.features_file),
                              geojson_file |-> fs.geojson.readable],
             model_loaded |-> ~IsNone(m),
             feature_columns_loaded |-> ~IsNone(cols),
             settlement_coords_count |-> Len(coords)]
        test == TryBody(Get(m), Get(cols), coords,
                        <<Location(req, req.fclass)>>)
    IN IF a = "python_api" /\ ~IsNone(m) /\ ~IsNone(cols)
       THEN [test EXCEPT !.status = 200, !.kind = "diagnosis",
                         !.info = Some(diagnosis)]
       ELSE [Outcome(200, "diagnosis", "", <<>>, "none", None, None)
               EXCEPT !.info = Some(diagnosis)]

\* POST /predict-debug (python-api): both the unloaded model and an exception
\* of the try block are returned as a dictionary with an "error" key.
DebugOutcome(m, cols, coords, locations) ==
    IF IsNone(m) \/ IsNone(cols)
    THEN Outcome(200, "debug", "Model not loaded", <<>>, "none", None, None)
    ELSE [TryBody(Get(m), Get(cols), coords, locations)
            EXCEPT !.status = 200, !.kind = "debug"]

\* POST /predict-mock (python-api): i is the 0-based position in the batch
MockScore(loc, i) ==
    ((loc.latitude % 1000) + (loc.longitude % 1000) + i * 100) % 1000

PredictMockOutcome(locations) ==
    Outcome(200, "results", "",
            [k \in 1..Len(locations) |->
               [latitude |-> locations[k].latitude,
                longitude |-> locations[k].longitude,
                suitable |-> MockScore(locations[k], k - 1) > 400,
                confidence |->
                    Some(60 + ((MockScore(locations[k], k - 1) % 300) + 5) \div 10)]],
            "mock", None, None)

\* GET /health and GET /test-model
StatusOutcome(m, cols, coords) ==
    [Outcome(200, "status", "", <<>>, "none", None, None)
       EXCEPT !.info = Some([model_loaded |-> ~IsNone(m),
                             feature_columns_loaded |-> ~IsNone(cols),
                             settlement_coords_count |-> Len(coords),
                             feature_count |->
                                 IF IsNone(cols) THEN 0 ELSE Len(Get(cols))])]

\* POST /analyze-model-behavior (python-api): fixed scenarios, each scored on
\* its own; an exception is recorded in the scenario's entry.
TestScenarios ==
    << [latitude |-> 28704, longitude |-> 77102, fclass |-> "commercial"],
       [latitude |-> 19076, longitude |-> 72877, fclass |-> "commercial"],
       [latitude |-> 12971, longitude |-> 77594, fclass |-> "commercial"],
       [latitude |-> 28704, longitude |-> 77102, fclass |-> "settlement"],
       [latitude |-> 19076, longitude |-> 72877, fclass |-> "settlement"],
       [latitude |-> 28704, longitude |-> 77102, fclass |-> "open_land"],
       [latitude |-> 19076, longitude |-> 72877, fclass |-> "open_land"],
       [latitude |-> 28704, longitude |-> 77102, fclass |-> "residential"],
       [latitude |-> 19076, longitude |-> 72877, fclass |-> "residential"] >>

AnalyzeOutcome(a, m, cols, coords) ==
    IF IsNone(m) \/ IsNone(cols)
    THEN Outcome(200, "debug", "Model not loaded", <<>>, "none", None, None)
    ELSE LET one(k) == predict_locations_logic(a, m, cols, coords,
                           <<TestScenarios[k]>>, 0)
         IN Outcome(200, "results", "",
                    [k \in 1..Len(TestScenarios) |->
                       IF one(k).kind = "http_error"
                       THEN [input_fclass |-> TestScenarios[k].fclass,
                             error |-> Some(one(k).detail),
                             suitable |-> FALSE, confidence |-> None]
                       ELSE [input_fclass |-> TestScenarios[k].fclass,
                             error |-> None,
                             suitable |-> one(k).body[1].suitable,
                             confidence |-> one(k).body[1].confidence]],
                    "classifier", None, None)

\* ------------------------------------------------------- training script
\* create_training_data keeps the rows of these categories
TrainingClasses == {"supermarket", "shop", "open_land"}

\* The __main__ block of train_model.py over the merged features.  stage is
\* where the script ended: in an exception of "process_geojson_data" or of
\* "calculate_near_settlement", at the exit for "no_labels", or "done" with
\* feature_columns.joblib holding X.columns.tolist().
TrainingScript(features) ==
    LET df == process_geojson_data(features)
        near == calculate_near_settlement(df.data)
        training_data == SelectSeq(df.data, LAMBDA r : r.fclass \in TrainingClasses)
        cats == {training_data[i].fclass : i \in 1..Len(training_data)}
    IN IF df.raised
       THEN [stage |-> "process_geojson_data", data |-> <<>>,
             near_settlement |-> <<>>, columns |-> None]
       ELSE IF near.raised
       THEN [stage |-> "calculate_near_settlement", data |-> df.data,
             near_settlement |-> <<>>, columns |-> None]
       ELSE IF training_data = <<>>
       THEN [stage |-> "no_labels", data |-> df.data,
             near_settlement |-> near.value, columns |-> None]
       ELSE [stage |-> "done", data |-> df.data,
             near_settlement |-> near.value,
             columns |-> Some(TrainColumns(cats))]

\* -------------------------------------------------------------------- state
VARIABLES
    app,                \* which deployment this process runs
    pc,                 \* startup position: "load_model", "load_reference", "serving"
    files,              \* the artifacts on disk
    model,              \* module global: None or the classifier
    feature_columns,    \* module global: None or the list of column names
    df_all,             \* module global: the reference rows
    settlement_coords,  \* module global: (lat, lon) of the settlements
    request,            \* the request being answered: None when idle
    response,           \* its response: None when idle
    train               \* the training script's normalised frame: None before it ran

vars == <<app, pc, files, model, feature_columns, df_all, settlement_coords,
          request, response, train>>

shared == <<model, feature_columns, df_all, settlement_coords>>

GeojsonFiles(n) ==
    {[readable |-> FALSE, features |-> <<>>]}
      \cup {[readable |-> TRUE, features |-> fs] : fs \in SeqsUpTo(StartupFeatures, n)}

\* The interpreter has started; nothing is loaded yet.
Init ==
    /\ app \in Apps
    /\ pc = "load_model"
    /\ files \in [model_file : {None} \cup {Some(c) : c \in Classifiers},
                  features_file : {None} \cup {Some(c) : c \in Schemas},
                  geojson : GeojsonFiles(MaxRefFeatures)]
    /\ model = None
    /\ feature_columns = None
    /\ df_all = <<>>
    /\ settlement_coords = <<>>
    /\ request = None
    /\ response = None
    /\ train = None

\* joblib.load of a file: raises when the file is missing or unreadable
LoadRaises(file) == IsNone(file)

\* LoadedArtifacts with an except clause that does not reset the globals:
\* each keeps what its own load produced
LoadedArtifactsNoReset(fs) ==
    [model |-> fs.model_file, feature_columns |-> fs.features_file]

\* try: model = load(...); feature_columns = load(...)
\* except Exception: model = None; feature_columns = None
LoadedArtifacts(fs) ==
    IF LoadRaises(fs.model_file) \/ LoadRaises(fs.features_file)
    THEN [model |-> None, feature_columns |-> None]
    ELSE [model |-> fs.model_file, feature_columns |-> fs.features_file]

LoadModel ==
    /\ pc = "load_model"
    /\ model' = LoadedArtifacts(files).model
    /\ feature_columns' = LoadedArtifacts(files).feature_columns
    /\ pc' = "load_reference"
    /\ UNCHANGED <<app, files, df_all, settlement_coords, request, response, train>>

\* df_all = process_geojson(geojson_file); settlements; settlement_coords
LoadReference ==
    /\ pc = "load_reference"
    /\ df_all' = process_geojson(files.geojson)
    /\ settlement_coords' = SettlementCoords(process_geojson(files.geojson))
    /\ pc' = "serving"
    /\ UNCHANGED <<app, files, model, feature_columns, request, response, train>>

Idle == pc = "serving" /\ IsNone(response)

Req(endpoint, payload) ==
    Some([endpoint |-> endpoint, payload |-> payload])

\* POST /predict
predict_locations_simple ==
    /\ Idle
    /\ \E locations \in Batches, seed \in Seeds :
         /\ request' = Req("/predict", locations)
         /\ response' = Some(predict_locations_logic(app, model, feature_columns,
                                  settlement_coords, locations, seed))
    /\ UNCHANGED <<app, pc, files, shared, train>>

\* POST /api/predict
predict_locations ==
    /\ Idle
    /\ \E locations \in Batches, seed \in Seeds :
         /\ request' = Req("/api/predict", locations)
         /\ response' = Some(predict_locations_logic(app, model, feature_columns,
                                  settlement_coords, locations, seed))
    /\ UNCHANGED <<app, pc, files, shared, train>>

\* /predict-circle retrying the classifier load on each request
\* (global model; model = load(...)) before answering
predict_circleReloading ==
    /\ Idle
    /\ \E req \in CircleRequests, seed \in Seeds :
         /\ request' = Req("/predict-circle", req)
         /\ response' = Some(PredictCircleOutcome(app, files.model_file,
                                  feature_columns, settlement_coords, req, seed))
    /\ model' = files.model_file
    /\ UNCHANGED <<app, pc, files, feature_columns, df_all, settlement_coords, train>>

\* POST /predict-circle
predict_circle ==
    /\ Idle
    /\ \E req \in CircleRequests, seed \in Seeds :
         /\ request' = Req("/predict-circle", req)
         /\ response' = Some(PredictCircleOutcome(app, model, feature_columns,
                                  settlement_coords, req, seed))
    /\ UNCHANGED <<app, pc, files, shared, train>>

\* POST /force-mixed-results
force_mixed_results ==
    /\ Idle
    /\ \E req \in CircleRequests, seed \in Seeds :
         /\ request' = Req("/force-mixed-results", req)
         /\ response' = Some(ForceMixedOutcome(app, model, feature_columns,
                                  settlement_coords, req, seed))
    /\ UNCHANGED <<app, pc, files, shared, train>>

\* POST /predict-circle-varied (python-api only)
predict_circle_varied ==
    /\ Idle
    /\ app = "python_api"
    /\ \E req \in CircleRequests, seed \in Seeds :
         /\ request' = Req("/predict-circle-varied", req)
         /\ response' = Some(VariedOutcome(app, model, feature_columns,
                                  settlement_coords, req, seed))
    /\ UNCHANGED <<app, pc, files, shared, train>>

\* POST /diagnose-model
diagnose_model ==
    /\ Idle
    /\ \E req \in CircleRequests :
         /\ request' = Req("/diagnose-model", req)
         /\ response' = Some(DiagnoseOutcome(app, files, model, feature_columns,
                                  settlement_coords, req))
    /\ UNCHANGED <<app, pc, files, shared, train>>

\* POST /predict-debug (python-api only)
predict_debug ==
    /\ Idle
    /\ app = "python_api"
    /\ \E locations \in Batches :
         /\ request' = Req("/predict-debug", locations)
         /\ response' = Some(DebugOutcome(model, feature_columns,
                                  settlement_coords, locations))
    /\ UNCHANGED <<app, pc, files, shared, train>>

\* POST /predict-mock (python-api only)
predict_mock ==
    /\ Idle
    /\ app = "python_api"
    /\ \E locations \in Batches :
         /\ request' = Req("/predict-mock", locations)
         /\ response' = Some(PredictMockOutcome(locations))
    /\ UNCHANGED <<app, pc, files, shared, train>>

\* POST /analyze-model-behavior (python-api only)
analyze_model_behavior ==
    /\ Idle
    /\ app = "python_api"
    /\ request' = Req("/analyze-model-behavior", <<>>)
    /\ response' = Some(AnalyzeOutcome(app, model, feature_columns,
                             settlement_coords))
    /\ UNCHANGED <<app, pc, files, shared, train>>

\* GET /health (both copies) and GET /test-model (python-api)
health_check ==
    /\ Idle
    /\ request' = Req("/health", <<>>)
    /\ response' = Some(StatusOutcome(model, feature_columns, settlement_coords))
    /\ UNCHANGED <<app, pc, files, shared, train>>

\* the framework sends the response; the worker is free again
Deliver ==
    /\ pc = "serving"
    /\ ~IsNone(response)
    /\ request' = None
    /\ response' = None
    /\ UNCHANGED <<app, pc, files, shared, train>>

\* ---------------------------------------- geometry normalisation on its own
\* A feature collection is on disk; nothing has read it yet.
InitGeo ==
    /\ app \in Apps
    /\ pc = "normalise"
    /\ files \in [model_file : {None}, features_file : {None},
                  geojson : {[readable |-> TRUE, features |-> fs] :
                               fs \in SeqsUpTo(FeatureUniverse, MaxFeatures)}]
    /\ model = None
    /\ feature_columns = None
    /\ df_all = <<>>
    /\ settlement_coords = <<>>
    /\ request = None
    /\ response = None
    /\ train = None

\* a service reads the collection: process_geojson, then settlement_coords
ServiceNormalise ==
    /\ pc = "normalise"
    /\ df_all' = process_geojson(files.geojson)
    /\ settlement_coords' = SettlementCoords(process_geojson(files.geojson))
    /\ pc' = "normalised"
    /\ UNCHANGED <<app, files, model, feature_columns, request, response, train>>

\* the training script reads the collection
TrainingNormalise ==
    /\ pc = "normalise"
    /\ train' = Some(TrainingScript(files.geojson.features))
    /\ pc' = "trained"
    /\ UNCHANGED <<app, files, shared, request, response>>

\* ------------------------------------------------ circle sampling on its own
\* centres at latitude 10, 0 and 60 degrees; radii in metres
CircleCentres ==
    { Testville, [latitude |-> 0, longitude |-> 20000],
      [latitude |-> 60000, longitude |-> 20000] }

CircleRadii == {0, 500, 2000, 3000}

CircleSeeds == 0..(MaxSeed + 3)

\* generate_points_in_circle is about to be called with these arguments
InitCircle ==
    /\ app \in Apps
    /\ pc = "sample"
    /\ files = [model_file |-> None, features_file |-> None,
                geojson |-> [readable |-> FALSE, features |-> <<>>]]
    /\ model = None
    /\ feature_columns = None
    /\ df_all = <<>>
    /\ settlement_coords = <<>>
    /\ request \in {Req("generate_points_in_circle",
                         [latitude |-> c.latitude, longitude |-> c.longitude,
                          radius |-> r, num_points |-> n, seed |-> sd]) :
                       c \in CircleCentres, r \in CircleRadii,
                       n \in {NumPoints, 15}, sd \in CircleSeeds}
    /\ response = None
    /\ train = None

\* points = generate_points_in_circle(center_lat, center_lng, radius_km, n)
SampleCircle ==
    /\ pc = "sample"
    /\ response' = Some(generate_points_in_circle(
                            Get(request).payload.latitude,
                            Get(request).payload.longitude,
                            Get(request).payload.radius,
                            Get(request).payload.num_points,
                            Get(request).payload.seed))
    /\ pc' = "sampled"
    /\ UNCHANGED <<app, files, shared, request, train>>

NextCircle == SampleCircle

SpecCircle == InitCircle /\ [][NextCircle]_vars

NextGeo ==
    \/ ServiceNormalise
    \/ TrainingNormalise

SpecGeo == InitGeo /\ [][NextGeo]_vars

Next ==
    \/ LoadModel
    \/ LoadReference
    \/ predict_locations_simple
    \/ predict_locations
    \/ predict_circle
    \/ force_mixed_results
    \/ predict_circle_varied
    \/ diagnose_model
    \/ predict_debug
    \/ predict_mock
    \/ analyze_model_behavior
    \/ health_check
    \/ Deliver

Spec == Init /\ [][Next]_vars

\* ================================================================ properties
Loaded == ~IsNone(model) /\ ~IsNone(feature_columns)

\* a response to one of these endpoints is in flight
Answered(endpoints) ==
    /\ pc = "serving"
    /\ ~IsNone(response)
    /\ Get(request).endpoint \in endpoints

BatchEndpoints == {"/predict", "/api/predict"}

\* C1: whenever the classifier or the schema is not loaded, /predict and
\* /api/predict answer every batch with the 'model not loaded' failure and
\* with no result record at all.
C1_UnloadedModelIsReported ==
    (Answered(BatchEndpoints) /\ ~Loaded)
        => /\ Get(response).kind = "http_error"
           /\ Get(response).status = 500
           /\ Get(response).detail = "Model not loaded properly"
           /\ Get(response).body = <<>>

\* C2: startup gets past the artifact loading whatever the files are; when
\* either load raises, both globals are None afterwards, and model is None
\* exactly when feature_columns is None in every reachable state.
C2_StartupDegrades ==
    /\ IsNone(model) <=> IsNone(feature_columns)
    /\ (pc # "load_model"
          /\ (LoadRaises(files.model_file) \/ LoadRaises(files.features_file)))
         => (IsNone(model) /\ IsNone(feature_columns))
    /\ (pc # "load_model"
          /\ ~LoadRaises(files.model_file) /\ ~LoadRaises(files.features_file))
         => Loaded
    /\ pc = "load_model" => ENABLED LoadModel
    /\ pc = "load_reference" => ENABLED LoadReference

\* C2 witness: the classifier file loads, the column file does not, and the
\* service is up with both globals None.
C2_Witness ==
    /\ pc = "serving"
    /\ ~LoadRaises(files.model_file)
    /\ LoadRaises(files.features_file)
    /\ IsNone(model)
    /\ IsNone(feature_columns)

\* the batch of the request in flight and its response
Payload == Get(request).payload
Resp == Get(response)

SameCoordinates(body, locations) ==
    /\ Len(body) = Len(locations)
    /\ \A i \in 1..Len(locations) :
         /\ body[i].latitude = locations[i].latitude
         /\ body[i].longitude = locations[i].longitude

\* C3 as claimed: with the model loaded, a list of n locations always comes
\* back as exactly n records, the i-th carrying the i-th input's coordinates.
C3_AlwaysOneRecordPerInput ==
    (Answered(BatchEndpoints) /\ Loaded)
        => /\ Resp.kind = "results"
           /\ SameCoordinates(Resp.body, Payload)

\* the batches the try block of predict_locations_logic gets through: not
\* empty, no latitude outside [-90, 90] while settlements exist, and a schema
\* as wide as the matrix the classifier was fitted on
Scorable(locations) ==
    /\ locations # <<>>
    /\ \/ settlement_coords = <<>>
       \/ \A i \in 1..Len(locations) : ValidLatitude(locations[i])
    /\ Len(Get(feature_columns)) = Get(model).n_features_in

\* C3 (amended): with the model loaded, a scorable batch of n locations comes
\* back as exactly n records in input order; every other batch (the empty one
\* included) is answered with HTTP 500 and no record.
C3_OneRecordPerInputOrError ==
    (Answered(BatchEndpoints) /\ Loaded)
        => IF Scorable(Payload)
           THEN /\ Resp.kind = "results"
                /\ Resp.status = 200
                /\ SameCoordinates(Resp.body, Payload)
           ELSE /\ Resp.kind = "http_error"
                /\ Resp.status = 500
                /\ Resp.body = <<>>

\* C3 witness: a batch of two different points answered with two records
C3_Witness ==
    /\ Answered(BatchEndpoints)
    /\ Loaded
    /\ Resp.kind = "results"
    /\ Len(Resp.body) = 2
    /\ Payload[1].longitude # Payload[2].longitude

\* C4: whatever fclass values the batch holds, the matrix handed to the
\* classifier has exactly the columns of feature_columns, in that order, in
\* every row.
C4_MatrixHasSchemaColumns ==
    (pc = "serving" /\ ~IsNone(response) /\ ~IsNone(Resp.X_new))
        => /\ Get(Resp.X_new).columns = Get(feature_columns)
           /\ Len(Get(Resp.X_new).columns) = Len(Get(feature_columns))
           /\ \A i \in 1..Len(Get(Resp.X_new).rows) :
                DOMAIN Get(Resp.X_new).rows[i] = Range(Get(feature_columns))

BatchClasses(locations) == {locations[i].fclass : i \in 1..Len(locations)}

\* C4 witness: a batch with a category the schema does not know and without a
\* category the schema has, scored on a matrix with the schema's columns
C4_Witness ==
    /\ Answered(BatchEndpoints)
    /\ Resp.kind = "results"
    /\ BatchClasses(Payload) = {"commercial", "open_land"}
    /\ Get(Resp.X_new).columns = Get(feature_columns)
    /\ Len(Get(feature_columns)) = 5

\* C5: in the matrix handed to the classifier every schema column the batch
\* did not produce is 0 in every row, no column outside the schema is left
\* (an unseen fclass raises nothing), and every column of both carries the
\* encoded value: the row's coordinates, its near_settlement flag, and 1 in
\* fclass_<v> exactly for the rows whose fclass is v.
C5_AlignmentFillsDropsKeeps ==
    (Answered(BatchEndpoints) /\ ~IsNone(Resp.X_new))
        => LET X == Get(Resp.X_new)
               near == Get(Resp.near_settlement)
           IN /\ Len(X.rows) = Len(Payload)
              /\ \A i \in 1..Len(Payload) :
                   /\ DOMAIN X.rows[i] = Range(Get(feature_columns))
                   /\ X.rows[i]["latitude"] = Payload[i].latitude
                   /\ X.rows[i]["longitude"] = Payload[i].longitude
                   /\ X.rows[i]["near_settlement"] = (IF near[i] THEN 1 ELSE 0)
                   /\ \A v \in Range(FclassOrder) :
                        ("fclass_" \o v) \in Range(Get(feature_columns))
                            => X.rows[i]["fclass_" \o v]
                                 = (IF Payload[i].fclass = v THEN 1 ELSE 0)

\* C5 witness: a scored batch in which fclass_shop is in the batch and in the
\* schema, fclass_supermarket only in the schema and fclass_commercial only in
\* the batch
C5_Witness ==
    /\ Answered(BatchEndpoints)
    /\ Resp.kind = "results"
    /\ BatchClasses(Payload) = {"shop", "commercial"}
    /\ Get(feature_columns) = TrainColumns({"open_land", "shop", "supermarket"})
    /\ \E i \in 1..Len(Payload) : Get(Resp.X_new).rows[i]["fclass_shop"] = 1
    /\ \A i \in 1..Len(Payload) : Get(Resp.X_new).rows[i]["fclass_supermarket"] = 0

\* C6 as claimed: near_settlement of a query point is true exactly when some
\* reference settlement lies within 2.0 km of it, distance 0 included.
C6_NearIffWithinTwoKm ==
    (Answered(BatchEndpoints) /\ Loaded /\ ~IsNone(Resp.near_settlement))
        => \A i \in 1..Len(Payload) :
             Get(Resp.near_settlement)[i]
               = (\E k \in 1..Len(settlement_coords) :
                    GeodesicSq(Payload[i], settlement_coords[k]) <= 20000 * 20000)

WellFormedPoint(f) == f.gtype = "Point" /\ Len(f.coordinates) = 2

\* the records of the well-formed Point features of a collection, in order
PointRecords(features) ==
    LET points == SelectSeq(features, WellFormedPoint)
    IN [i \in 1..Len(points) |-> FeatureRecord(points[i])]

\* C7 as claimed: a malformed feature is skipped alone; every well-formed
\* Point feature before and after it yields its record, in the services
\* (process_geojson) and in the training script (process_geojson_data).
C7_MalformedFeatureSkippedAlone ==
    /\ pc = "normalised" => df_all = PointRecords(files.geojson.features)
    /\ pc = "trained"
         => /\ Get(train).stage # "process_geojson_data"
            /\ Get(train).data = PointRecords(files.geojson.features)

\* C8: once the service is serving, no step changes model, feature_columns,
\* df_all or settlement_coords.
C8_SharedStateReadOnly == [][pc = "serving" => shared' = shared]_vars

\* C8 witness: /force-mixed-results, the handler that rewrites its result
\* list, has answered on a loaded service with settlements
C8_Witness ==
    /\ Answered({"/force-mixed-results"})
    /\ Loaded
    /\ settlement_coords # <<>>
    /\ Resp.kind = "results"
    /\ \E i \in 1..Len(Resp.body) : Resp.body[i].confidence = Some(75)

\* the exception the try block raises for this batch, None if it completes
TryException(locations) ==
    LET r == TryBody(Get(model), Get(feature_columns), settlement_coords, locations)
    IN IF r.kind = "exception" THEN Some(r.detail) ELSE None

\* what startup built from the files
StartupShared ==
    /\ model = LoadedArtifacts(files).model
    /\ feature_columns = LoadedArtifacts(files).feature_columns
    /\ df_all = process_geojson(files.geojson)
    /\ settlement_coords = SettlementCoords(process_geojson(files.geojson))

\* C9 as claimed: with the model loaded, an exception of the try block over a
\* request batch always reaches the caller as HTTP 500 with the detail
\* 'Prediction error: <message>' and no result list.
C9_ExceptionIsAlways500 ==
    (Answered(BatchEndpoints \cup {"/predict-debug"}) /\ Loaded
       /\ ~IsNone(TryException(Payload)))
        => /\ Resp.status = 500
           /\ Resp.detail = "Prediction error: " \o Get(TryException(Payload))
           /\ Resp.body = <<>>

\* C9 (amended): with the model loaded, an exception of the try block is
\* answered by /predict and /api/predict with HTTP 500, the detail
\* 'Prediction error: <message>' and no record, and by the python-api
\* debugging endpoints /predict-debug and /diagnose-model with HTTP 200, the
\* message and no record; the circle endpoints answer either records or
\* HTTP 500 without records; the shared state stays what startup built.
C9_ExceptionIsReported ==
    /\ pc = "serving" => StartupShared
    /\ (Answered(BatchEndpoints) /\ Loaded /\ ~IsNone(TryException(Payload)))
         => /\ Resp.kind = "http_error"
            /\ Resp.status = 500
            /\ Resp.detail = "Prediction error: " \o Get(TryException(Payload))
            /\ Resp.body = <<>>
    /\ (Answered({"/predict-debug"}) /\ Loaded /\ ~IsNone(TryException(Payload)))
         => /\ Resp.kind = "debug"
            /\ Resp.status = 200
            /\ Resp.detail = Get(TryException(Payload))
            /\ Resp.body = <<>>
    /\ (Answered({"/diagnose-model"}) /\ Loaded /\ app = "python_api"
          /\ ~IsNone(TryException(<<Location(Payload, Payload.fclass)>>)))
         => /\ Resp.kind = "diagnosis"
            /\ Resp.status = 200
            /\ Resp.detail = Get(TryException(<<Location(Payload, Payload.fclass)>>))
            /\ Resp.body = <<>>
    /\ (Answered({"/predict-circle", "/force-mixed-results",
                  "/predict-circle-varied"}) /\ Loaded)
         => \/ Resp.kind = "results" /\ Resp.status = 200 /\ Resp.body # <<>>
            \/ Resp.kind = "http_error" /\ Resp.status = 500 /\ Resp.body = <<>>

\* C9 witness: a non-empty batch on a loaded service with settlements was
\* answered with the latitude error
C9_Witness ==
    /\ Answered(BatchEndpoints)
    /\ Loaded
    /\ Len(Payload) = 2
    /\ settlement_coords # <<>>
    /\ Resp.status = 500
    /\ Resp.detail = "Prediction error: Latitude must be in the [-90; 90] range."

\* the endpoints that run the near_settlement loop over the request batch
AssemblyEndpoints == BatchEndpoints \cup {"/predict-debug"}

\* C10: with no settlement coordinates (reference file unreadable, empty or
\* without settlements) the near_settlement loop raises for no batch: every
\* point gets its flag, and the flag is false.
C10_NoReferenceNoError ==
    (Answered(AssemblyEndpoints) /\ Loaded /\ settlement_coords = <<>>)
        => /\ ~IsNone(Resp.near_settlement)
           /\ Len(Get(Resp.near_settlement)) = Len(Payload)
           /\ \A i \in 1..Len(Payload) : ~Get(Resp.near_settlement)[i]
           /\ Resp.detail \notin
                {"Latitude must be in the [-90; 90] range.",
                 "Prediction error: Latitude must be in the [-90; 90] range."}

\* C10 witness: the reference file could not be read and a batch holding the
\* point with the out-of-range latitude was scored
C10_Witness ==
    /\ Answered(BatchEndpoints)
    /\ Loaded
    /\ ~files.geojson.readable
    /\ settlement_coords = <<>>
    /\ Resp.kind = "results"
    /\ \E i \in 1..Len(Payload) : ~ValidLatitude(Payload[i])
    /\ Get(Resp.near_settlement) = [i \in 1..Len(Payload) |-> FALSE]

\* no two rows with the same (latitude, longitude)
NoDuplicateCoordinates(rows) ==
    \A i, j \in 1..Len(rows) :
        i # j => ~(/\ rows[i].latitude = rows[j].latitude
                   /\ rows[i].longitude = rows[j].longitude)

\* C11 as claimed: whatever the feature collection, the reference dataset
\* built at load time and the settlement coordinate list derived from it hold
\* no two entries with the same (latitude, longitude) pair.
C11_ReferenceDatasetDeduplicated ==
    pc = "normalised"
        => /\ NoDuplicateCoordinates(df_all)
           /\ NoDuplicateCoordinates(settlement_coords)

\* polygon, line and multi-geometry types of GeoJSON
VertexTypes ==
    {"LineString", "Polygon", "MultiPoint", "MultiLineString", "MultiPolygon"}

\* the [lon, lat] pairs of a flattened coordinate list
VertexPairs(f) ==
    [k \in 1..(Len(f.coordinates) \div 2) |->
       [longitude |-> f.coordinates[2 * k - 1], latitude |-> f.coordinates[2 * k]]]

RECURSIVE SumOf(_, _)
SumOf(s, field) ==
    IF s = <<>> THEN 0 ELSE Head(s)[field] + SumOf(Tail(s), field)

\* the record at the arithmetic mean of the vertices of f
CentroidRecord(f) ==
    [latitude |-> SumOf(VertexPairs(f), "latitude") \div Len(VertexPairs(f)),
     longitude |-> SumOf(VertexPairs(f), "longitude") \div Len(VertexPairs(f)),
     fclass |-> f.fclass, name |-> f.name]

\* every vertex feature of the collection with at least one pair has exactly
\* as many centroid records among rows as the collection has copies of it
CentroidRecordsIn(rows, features) ==
    \A k \in 1..Len(features) :
        (features[k].gtype \in VertexTypes /\ VertexPairs(features[k]) # <<>>)
            => Len(SelectSeq(rows, LAMBDA r : r = CentroidRecord(features[k])))
                 = Len(SelectSeq(features, LAMBDA g : g = features[k]))

\* C12 as claimed: a polygon, line or multi-geometry feature with at least one
\* valid [lon, lat] pair yields exactly one record, at the arithmetic mean of
\* its coordinate pairs, in the services and in the training script.
C12_PolygonYieldsCentroidRecord ==
    /\ pc = "normalised" => CentroidRecordsIn(df_all, files.geojson.features)
    /\ pc = "trained"
         => CentroidRecordsIn(Get(train).data, files.geojson.features)

\* a feature the loop body does not raise on: its geometry has a type string,
\* and a Point carries a coordinate pair
HasTypeAndPair(f) ==
    f.gtype # "" /\ (f.gtype = "Point" => Len(f.coordinates) = 2)

\* the rows a collection must yield: one per Point feature, in order, with
\* latitude = coordinates[1] and longitude = coordinates[0] (0-based)
RecordsOfPoints(features) ==
    LET points == SelectSeq(features, LAMBDA f : f.gtype = "Point")
    IN [i \in 1..Len(points) |->
          [latitude |-> points[i].coordinates[2],
           longitude |-> points[i].coordinates[1],
           fclass |-> points[i].fclass, name |-> points[i].name]]

\* C16: in a collection of Point features and features of any other geometry
\* type, the features that are not Points are passed over without an
\* exception and without a record, and every Point feature yields exactly one
\* record with latitude = coordinates[1] and longitude = coordinates[0], in
\* the services and in the training script.
C16_UnknownTypeSkippedPointsKept ==
    (\A k \in 1..Len(files.geojson.features) :
        HasTypeAndPair(files.geojson.features[k]))
        => /\ pc = "normalised"
                => df_all = RecordsOfPoints(files.geojson.features)
           /\ pc = "trained"
                => /\ Get(train).stage # "process_geojson_data"
                   /\ Get(train).data = RecordsOfPoints(files.geojson.features)

\* C16 witness: a service has read a collection with a Hexagon feature between
\* two Point features and holds exactly the two Point records
C16_Witness ==
    /\ pc = "normalised"
    /\ Len(files.geojson.features) = 3
    /\ files.geojson.features[1].gtype = "Point"
    /\ files.geojson.features[2].gtype = "Hexagon"
    /\ files.geojson.features[3].gtype = "Point"
    /\ Len(df_all) = 2
    /\ df_all[1].latitude = files.geojson.features[1].coordinates[2]
    /\ df_all[2].longitude = files.geojson.features[3].coordinates[1]

\* the batch operation and the circle operation
PredictionEndpoints == BatchEndpoints \cup {"/predict-circle"}

\* every record carries what the classifier answered for its row of X
FromClassifier(body, clf, X) ==
    /\ Len(body) = Len(X.rows)
    /\ \A i \in 1..Len(body) :
         /\ body[i].suitable = (PredictRow(clf, X.rows[i]) # 0)
         /\ body[i].confidence = Some(ProbaRow(clf, X.rows[i]))

\* every record carries the placeholder of the model-unavailable branch: the
\* coordinate formula and a confidence drawn from 0.60..0.90
FromPlaceholder(body, locations) ==
    /\ Len(body) = Len(locations)
    /\ \A i \in 1..Len(body) :
         /\ body[i].suitable
              = (((locations[i].latitude % 1000)
                  + (locations[i].longitude % 1000)) % 30 > 10)
         /\ \E q \in 0..8 : body[i].confidence = Some(60 + (30 * q) \div 8)

\* a result list of a prediction operation is the classifier's throughout on
\* a loaded process and the placeholder's throughout on an unloaded one
UnblendedResponse ==
    /\ (Answered(PredictionEndpoints) /\ Resp.kind = "results")
         => IF Loaded
            THEN /\ Resp.source = "classifier"
                 /\ ~IsNone(Resp.X_new)
                 /\ FromClassifier(Resp.body, Get(model), Get(Resp.X_new))
            ELSE /\ Resp.source = "mock"
                 /\ IsNone(Resp.X_new)
                 /\ Get(request).endpoint \in BatchEndpoints
                 /\ FromPlaceholder(Resp.body, Payload)
    /\ Answered({"/predict-mock"})
         => Resp.source = "mock" /\ IsNone(Resp.X_new)

WithinRadius(p, c, radius) ==
    LET dy == (Abs(p.latitude - c.latitude) * 11054) \div 10
        dx == (Abs(p.longitude - c.longitude) * LngKmPerDegree(c.latitude)) \div 10
    IN /\ dy <= radius * 10
       /\ dx <= radius * 10
       /\ dy * dy + dx * dx <= (radius * 10) * (radius * 10)

\* C14: every point generate_points_in_circle returns lies at most R from the
\* centre under the sampler's km-per-degree conversion, for every centre,
\* every radius R >= 0 and every state of the random generator; with R = 0
\* every point is the centre.
C14_PointsWithinRadius ==
    pc = "sampled"
        => /\ Len(Get(response)) = Payload.num_points
           /\ \A k \in 1..Len(Get(response)) :
                WithinRadius(Get(response)[k], Payload, Payload.radius)
           /\ Payload.radius = 0
                => \A k \in 1..Len(Get(response)) :
                     /\ Get(response)[k].latitude = Payload.latitude
                     /\ Get(response)[k].longitude = Payload.longitude

\* C14 witness: twenty points around a centre at latitude 60 with a radius of
\* 3 km, one of them on the rim to the west (offset 53 millidegrees of
\* longitude) and one off both axes
C14_Witness ==
    /\ pc = "sampled"
    /\ Payload.radius = 3000
    /\ Payload.latitude = 60000
    /\ Len(Get(response)) = 20
    /\ \E k \in 1..20 :
         /\ Get(response)[k].latitude = Payload.latitude
         /\ Get(response)[k].longitude = Payload.longitude - 53
    /\ \E k \in 1..20 :
         /\ Get(response)[k].latitude # Payload.latitude
         /\ Get(response)[k].longitude # Payload.longitude

\* the body holds the points sampled around the request's centre from some
\* state of the random generator, in sampling order
SampledFrom(body, req, n) ==
    \E seed \in Seeds :
        LET points == generate_points_in_circle(req.latitude, req.longitude,
                                                req.radius, n, seed)
        IN /\ Len(body) = n
           /\ \A k \in 1..n :
                /\ body[k].latitude = points[k].latitude
                /\ body[k].longitude = points[k].longitude

\* every row of the matrix carries the category fclass: 1 in its indicator
\* column if the schema has it, 0 in every other indicator column
TaggedWith(X, fclass) ==
    \A i \in 1..Len(X.rows) :
        \A v \in Range(FclassOrder) :
            DummyName(v) \in Range(X.columns)
                => X.rows[i][DummyName(v)] = BoolInt(v = fclass)

\* /predict-circle without the model: the failure raised before sampling
CircleNotLoaded ==
    (Answered({"/predict-circle"}) /\ ~Loaded)
        => /\ Resp.kind = "http_error"
           /\ Resp.status = 500
           /\ Resp.detail = "Model not loaded properly - check if model files exist"
           /\ Resp.body = <<>>
           /\ IsNone(Resp.near_settlement)
           /\ IsNone(Resp.X_new)

\* twenty sampled points, each tagged with the request's fclass, scored in
\* one matrix and answered with one record per point
TwentyTaggedRecords ==
    /\ Resp.kind = "results"
    /\ Resp.status = 200
    /\ Len(Resp.body) = 20
    /\ SampledFrom(Resp.body, Payload, 20)
    /\ ~IsNone(Resp.X_new)
    /\ Len(Get(Resp.X_new).rows) = 20
    /\ TaggedWith(Get(Resp.X_new), Payload.fclass)
    /\ FromClassifier(Resp.body, Get(model), Get(Resp.X_new))

\* C15 as claimed: with the model loaded /predict-circle always returns
\* exactly 20 records, one per sampled point tagged with the request's fclass;
\* without the model it fails with 'model not loaded' before sampling.
C15_LoadedCircleAlwaysTwentyRecords ==
    /\ (Answered({"/predict-circle"}) /\ Loaded) => TwentyTaggedRecords
    /\ CircleNotLoaded

\* C15 (amended): with the model loaded /predict-circle samples 20 points,
\* tags each with the request's fclass and hands them to the batch operation
\* once; it returns exactly 20 records when the schema is as wide as the
\* matrix the classifier was fitted on, and the batch operation's HTTP 500
\* 'Prediction error' without a record otherwise; without the model it fails
\* with 'model not loaded' before sampling.
C15_CircleTwentyRecordsOrError ==
    /\ (Answered({"/predict-circle"}) /\ Loaded)
         => IF Len(Get(feature_columns)) = Get(model).n_features_in
            THEN TwentyTaggedRecords
            ELSE /\ Resp.kind = "http_error"
                 /\ Resp.status = 500
                 /\ Resp.detail = "Prediction error: X has a different number of features than the classifier expects"
                 /\ Resp.body = <<>>
                 /\ Len(Get(Resp.X_new).rows) = 20
                 /\ TaggedWith(Get(Resp.X_new), Payload.fclass)
    /\ CircleNotLoaded

\* C15 witness: a loaded service has answered a circle of 2 km around
\* Testville for fclass 'shop' with 20 records, not all at the same place
C15_Witness ==
    /\ Answered({"/predict-circle"})
    /\ Loaded
    /\ Payload.fclass = "shop"
    /\ Payload.radius = 2000
    /\ Resp.kind = "results"
    /\ Len(Resp.body) = 20
    /\ \E i, j \in 1..20 : Resp.body[i].latitude # Resp.body[j].latitude
    /\ \A i \in 1..20 : Get(Resp.X_new).rows[i]["fclass_shop"] = 1

\* the frame the training script would hold for one query point and the
\* settlements of the service: the point's row, then one row per settlement
TrainingFrame(point, coords) ==
    <<[latitude |-> point.latitude, longitude |-> point.longitude,
       fclass |-> "shop", name |-> "query"]>>
      \o [k \in 1..Len(coords) |->
            [latitude |-> coords[k].latitude, longitude |-> coords[k].longitude,
             fclass |-> "settlement", name |-> "s"]]

\* some settlement lies at a distance d with 0 < d <= 2.0 km
SomeSettlementInRing(point, coords) ==
    \E k \in 1..Len(coords) :
        /\ GeodesicSq(point, coords[k]) > 0
        /\ GeodesicSq(point, coords[k]) <= 20000 * 20000

\* C17: for every query point of a batch, the near_settlement flag the
\* service computed equals the flag calculate_near_settlement of the training
\* script gives the same point over the same settlement coordinates: true iff
\* some settlement lies at 0 < d <= 2.0 km, false without settlements; the
\* service's loop raises exactly when the training function raises.
C17_ServingFlagEqualsTrainingFlag ==
    (Answered(AssemblyEndpoints) /\ Loaded)
        => LET training(i) ==
                   calculate_near_settlement(
                       TrainingFrame(Payload[i], settlement_coords))
           IN IF IsNone(Resp.near_settlement)
              THEN \E i \in 1..Len(Payload) : training(i).raised
              ELSE /\ Len(Get(Resp.near_settlement)) = Len(Payload)
                   /\ \A i \in 1..Len(Payload) :
                        /\ ~training(i).raised
                        /\ Get(Resp.near_settlement)[i] = training(i).value[1]
                        /\ Get(Resp.near_settlement)[i]
                             = SomeSettlementInRing(Payload[i], settlement_coords)
                        /\ settlement_coords = <<>>
                             => ~Get(Resp.near_settlement)[i]

\* C17 witness: with Testville the only settlement, a batch of the point on
\* Testville and the point 0.55 km from it got the flags false and true, as
\* the training function gives them
C17_Witness ==
    /\ Answered(BatchEndpoints)
    /\ Loaded
    /\ settlement_coords = <<Testville>>
    /\ Len(Payload) = 2
    /\ Payload[1].longitude = Testville.longitude
    /\ Payload[1].latitude = Testville.latitude
    /\ Payload[2].longitude = PNear.longitude
    /\ Resp.near_settlement = Some(<<FALSE, TRUE>>)
    /\ calculate_near_settlement(
           TrainingFrame(Payload[1], settlement_coords)).value[1] = FALSE

\* C18: a result list /force-mixed-results of python-api returns on a loaded
\* process has 20 records that are neither all suitable nor all unsuitable:
\* if the classifier marked all unsuitable, exactly the records at the
\* 0-based indices 0, 3, 6, ... are suitable with confidence 0.75; if it
\* marked all suitable, exactly those at 1, 4, 7, ... are unsuitable with
\* confidence 0.65; every other record, and every record of an already mixed
\* output, is what the classifier answered.
C18_ForcedResultsAreMixed ==
    (Answered({"/force-mixed-results"}) /\ app = "python_api" /\ Loaded
       /\ Resp.kind = "results")
        => LET X == Get(Resp.X_new)
               n == Len(Resp.body)
               raw(i) == PredictRow(Get(model), X.rows[i]) # 0
               conf(i) == Some(ProbaRow(Get(model), X.rows[i]))
               all_unsuitable == \A i \in 1..n : ~raw(i)
               all_suitable == \A i \in 1..n : raw(i)
           IN /\ n = 20
              /\ Len(X.rows) = 20
              /\ \E i \in 1..n : Resp.body[i].suitable
              /\ \E i \in 1..n : ~Resp.body[i].suitable
              /\ \A i \in 1..n :
                   /\ Resp.body[i].latitude = X.rows[i]["latitude"]
                   /\ Resp.body[i].longitude = X.rows[i]["longitude"]
                   /\ IF all_unsuitable /\ (i - 1) % 3 = 0
                      THEN /\ Resp.body[i].suitable
                           /\ Resp.body[i].confidence = Some(75)
                      ELSE IF all_suitable /\ (i - 1) % 3 = 1
                      THEN /\ ~Resp.body[i].suitable
                           /\ Resp.body[i].confidence = Some(65)
                      ELSE /\ Resp.body[i].suitable = raw(i)
                           /\ Resp.body[i].confidence = conf(i)

\* C18 witness: python-api with a classifier that marks everything suitable
\* has answered /force-mixed-results with the second record forced unsuitable
\* at confidence 0.65 and the first left as scored
C18_Witness ==
    /\ Answered({"/force-mixed-results"})
    /\ app = "python_api"
    /\ Loaded
    /\ Get(model).rule = "all_suitable"
    /\ Resp.kind = "results"
    /\ Len(Resp.body) = 20
    /\ ~Resp.body[2].suitable
    /\ Resp.body[2].confidence = Some(65)
    /\ Resp.body[1].suitable
    /\ Resp.body[1].confidence = Some(90)

\* the classifier's own output was mixed and came back unchanged
C18_MixedLeftAlone ==
    /\ Answered({"/force-mixed-results"})
    /\ app = "python_api"
    /\ Resp.kind = "results"
    /\ \E i, j \in 1..20 :
         /\ Resp.body[i].confidence = Some(80)
         /\ Resp.body[j].confidence = Some(30)
    /\ \A i \in 1..20 : Resp.body[i].confidence \in {Some(80), Some(30)}

====
